---- MODULE Spec2Model ----
(***************************************************************************)
(* Model of scripts/enhance-price-data.py (class PriceDataEnhancer).       *)
(*                                                                         *)
(* Numbers.  Python floats are modelled as fixed-point integers with four  *)
(* decimals: the integer n stands for n / Scale.  Prices, returns and      *)
(* factors all use this unit, so a stored price (rounded to 2 decimals) is *)
(* a multiple of Cent.  Products are rounded down to the unit, which is    *)
(* monotone in each operand as IEEE multiplication is.                     *)
(*                                                                         *)
(* Randomness.  Every call into random / numpy.random is an input of the   *)
(* run: each draw is chosen from a small set of values that contains the   *)
(* extremes of its distribution.  The draws of one loop form a tape, one   *)
(* entry per business day.                                                 *)
(*                                                                         *)
(* Dates.  A date is a day number; day 0 is Monday 2024-01-01.             *)
(***************************************************************************)
EXTENDS Integers, Sequences, FiniteSets, TLC

VARIABLES
    \* generate_realistic_price_series: arguments and locals
    start_date, end_date, base_price, volatility,
    pc, date_range, scenario, daily_returns, prices, data,
    \* orchestration: the price_candle table and the position in the run
    store, opc, todo, visited, skipped, calls

genVars == <<start_date, end_date, base_price, volatility,
             pc, date_range, scenario, daily_returns, prices, data>>
orchVars == <<store, opc, todo, visited, skipped, calls>>
vars == <<start_date, end_date, base_price, volatility,
          pc, date_range, scenario, daily_returns, prices, data,
          store, opc, todo, visited, skipped, calls>>

----------------------------------------------------------------------------
(* Bounds of the model *)

\* series of at most this many business days get every combination of draws;
\* longer series get the typical draw on every day
MaxExhaustive == 2
\* last day number a run may end on
MaxDate == 701
\* how many entries of korean_stocks / global_etfs the orchestration runs use
NumStocks == 2
NumEtfs == 2
\* short date ranges end on a day number up to this one
MaxShortEnd == 11

----------------------------------------------------------------------------
(* Fixed-point arithmetic *)

\* round(x, 2): one hundredth, in units of 1 / Scale
Cent == 100
Scale == Cent * Cent

Abs(x) == IF x < 0 THEN -x ELSE x
Max(a, b) == IF a >= b THEN a ELSE b
Min(a, b) == IF a <= b THEN a ELSE b

\* p * f for a value p and a factor f, both in units of 1 / Scale
\* (split so that the intermediate product stays inside 32 bits)
Mul(p, f) == (p \div Scale) * f + ((p % Scale) * f) \div Scale

\* round(x, 2): nearest multiple of Cent, ties to the even hundredth
Round2(x) ==
    LET q == x \div Cent
        r == x % Cent
    IN  IF 2 * r < Cent THEN q * Cent
        ELSE IF 2 * r > Cent THEN (q + 1) * Cent
        ELSE IF q % 2 = 0 THEN q * Cent ELSE (q + 1) * Cent

----------------------------------------------------------------------------
(* Calendar: pd.bdate_range(start, end), Monday to Friday, no holidays *)

IsBusinessDay(d) == d % 7 < 5

BDateRange(first, last) ==
    IF first > last THEN <<>>
    ELSE SelectSeq([i \in 1..(last - first + 1) |-> first + i - 1], IsBusinessDay)

----------------------------------------------------------------------------
(* Random draws *)

\* np.random.normal(loc, scale): loc + scale * z for a standard normal z
Normal(loc, scale, z) == loc + scale * z

\* random.uniform(a, b): a + (b - a) * u for u = random.random()
Uniform(a, b, u) == a + Mul(b - a, u)

\* standard-normal outcomes of the daily-return noise, and the typical one
ZDraws == {-4, 4}
ZTypical == 0

\* random.random() against event_probability, then random.choice of a magnitude
EventMagnitudes == <<-800, -500, 500, 800>>
EventDraws ==
    {[u |-> 100, m |-> i] : i \in 1..Len(EventMagnitudes)}
        \cup {[u |-> 500, m |-> 1]}
EventTypical == [u |-> 9000, m |-> 1]

\* random.randint(100000, 500000)
MinBaseVolume == 100000
MaxBaseVolume == 500000

\* the four draws of one candle: standard-normal outcomes for the high and the
\* low factor, random.random() behind the open's uniform factor, base volume
OhlcDraws ==
    { [hz |-> 0,  lz |-> 0,  u |-> 0,     bv |-> MinBaseVolume],
      [hz |-> -1, lz |-> 60, u |-> Scale, bv |-> MaxBaseVolume],
      [hz |-> 2,  lz |-> -1, u |-> 0,     bv |-> MaxBaseVolume],
      [hz |-> 0,  lz |-> 1,  u |-> Scale, bv |-> MinBaseVolume] }
OhlcTypical == [hz |-> 1, lz |-> -1, u |-> Scale \div 2, bv |-> (MinBaseVolume + MaxBaseVolume) \div 2]

\* the tapes of n draws from D
Tapes(n, D, typical) ==
    IF n <= MaxExhaustive THEN [1..n -> D] ELSE {[i \in 1..n |-> typical]}

\* np.random.shuffle: the permutations tried are the rotations by these offsets
ShuffleOffsets(n) == {0, n \div 3, n \div 2}
Shuffle(s, k) ==
    LET n == Len(s)
    IN  [i \in 1..n |-> s[((i - 1 + k) % n) + 1]]

----------------------------------------------------------------------------
(* generate_market_scenario(days, scenario_type), with its draws z *)

\* np.linspace(0, total, days)[i - 1] / days
TrendShare(total, days, i) ==
    IF days = 1 THEN 0 ELSE ((total * (i - 1)) \div (days - 1)) \div days

bull_period(days) == days \div 3
bear_period(days) == days \div 4
\* variant: the last block taken as a third instead of the remainder
SidewaysThird(days) == days \div 3
sideways_period(days) == days - bull_period(days) - bear_period(days)

MixedReturns(days, z) ==
    LET nb == bull_period(days)
        nr == bear_period(days)
        ns == sideways_period(days)
        bull_returns == [i \in 1..nb |-> Normal(20, 200, z[i])]
        bear_returns == [i \in 1..nr |-> Normal(-30, 300, z[nb + i])]
        sideways_returns == [i \in 1..ns |-> Normal(0, 150, z[nb + nr + i])]
    IN  bull_returns \o bear_returns \o sideways_returns

generate_market_scenario(days, scenario_type, z, k) ==
    IF scenario_type = "bull"
    THEN [i \in 1..days |-> Normal(10, 200, z[i]) + TrendShare(8000, days, i)]
    ELSE IF scenario_type = "bear"
    THEN [i \in 1..days |-> Normal(-10, 250, z[i]) + TrendShare(-4000, days, i)]
    ELSE IF scenario_type = "sideways"
    THEN [i \in 1..days |-> Normal(0, 150, z[i])]
    ELSE Shuffle(MixedReturns(days, z), k)

----------------------------------------------------------------------------
(* generate_realistic_price_series(ticker, start_date, end_date, base_price, *)
(* volatility)                                                               *)

\* variant: the lower threshold compared with >= instead of >
ScenarioChoicesFrom250(days) ==
    IF days > 500 THEN {"mixed"}
    ELSE IF days >= 250 THEN {"bull", "bear", "mixed"}
    ELSE {"bull", "bear", "sideways"}

ScenarioChoices(days) ==
    IF days > 500 THEN {"mixed"}
    ELSE IF days > 250 THEN {"bull", "bear", "mixed"}
    ELSE {"bull", "bear", "sideways"}

\* daily_returns *= volatility
ScaleReturns(returns, vol) ==
    [i \in 1..Len(returns) |-> (returns[i] * vol) \div Scale]

event_probability == 500

\* the special-event loop: ev[i] holds day i's draws
AddEvents(returns, ev) ==
    [i \in 1..Len(returns) |->
        IF ev[i].u < event_probability
        THEN returns[i] + EventMagnitudes[ev[i].m]
        ELSE returns[i]]

\* base_price * 0.1
PriceFloor(base) == Mul(base, Scale \div 10)

\* variant: the price loop without the floor
NextPriceUnfloored(prev, return_rate, base) == Mul(prev, Scale + return_rate)

\* one step of the price loop: prices.append(max(new_price, base_price * 0.1))
NextPrice(prev, return_rate, base) ==
    LET new_price == Mul(prev, Scale + return_rate)
    IN  Max(new_price, PriceFloor(base))

intraday_volatility == 200

\* variant: no special case for the first day, so that prices[i-1] reads
\* prices[-1], the last price
OpenPriceNoFirstDay(i, ps, u) ==
    Mul(ps[IF i = 1 THEN Len(ps) ELSE i - 1], Uniform(9950, 10050, u))

OpenPrice(i, ps, u) ==
    IF i = 1
    THEN Mul(ps[i], Uniform(9900, 10100, u))
    ELSE Mul(ps[i - 1], Uniform(9950, 10050, u))

\* variant: the high taken from the close alone
HighPriceFromClose(open_price, close_price, hz) ==
    Mul(close_price, Scale + Abs(Normal(0, intraday_volatility, hz)))

HighPrice(open_price, close_price, hz) ==
    LET high_factor == Scale + Abs(Normal(0, intraday_volatility, hz))
    IN  Mul(Max(open_price, close_price), high_factor)

LowPrice(open_price, close_price, lz) ==
    LET low_factor == Scale - Abs(Normal(0, intraday_volatility, lz))
    IN  Mul(Min(open_price, close_price), low_factor)

\* variant: the multiplier built from the signed return
VolumeSigned(base_volume, return_rate) ==
    Mul(base_volume, Scale + return_rate * 10)

\* int(base_volume * (1 + abs(daily_returns[i]) * 10))
Volume(base_volume, return_rate) ==
    LET price_change == Abs(return_rate)
        volume_multiplier == Scale + price_change * 10
    IN  Mul(base_volume, volume_multiplier)

\* one iteration of the OHLC loop: the dictionary appended to data
Candle(i, date, ps, returns, d) ==
    LET close_price == ps[i]
        open_price == OpenPrice(i, ps, d.u)
        high_price == HighPrice(open_price, close_price, d.hz)
        low_price == LowPrice(open_price, close_price, d.lz)
    IN  [date |-> date,
         open_price |-> Round2(open_price),
         high_price |-> Round2(high_price),
         low_price |-> Round2(low_price),
         close_price |-> Round2(close_price),
         volume |-> Volume(d.bv, returns[i]),
         timeframe |-> "DAILY"]

\* lines 117-127: the business days of the range and the scenario
SelectScenario ==
    /\ pc = "start"
    /\ date_range' = BDateRange(start_date, end_date)
    /\ \E s \in ScenarioChoices(Len(date_range')) : scenario' = s
    /\ pc' = "returns"
    /\ UNCHANGED <<start_date, end_date, base_price, volatility,
                   daily_returns, prices, data>>
    /\ UNCHANGED orchVars

\* lines 129-143: the scenario's returns, scaled, with the special events;
\* prices = [base_price]
GenerateReturns ==
    /\ pc = "returns"
    /\ LET days == Len(date_range)
       IN  \E z \in Tapes(days, ZDraws, ZTypical),
              ev \in Tapes(days, EventDraws, EventTypical),
              k \in (IF scenario = "mixed" THEN ShuffleOffsets(days) ELSE {0}) :
                daily_returns' =
                    AddEvents(
                        ScaleReturns(
                            generate_market_scenario(days, scenario, z, k),
                            volatility),
                        ev)
    /\ prices' = <<base_price>>
    /\ pc' = "prices"
    /\ UNCHANGED <<start_date, end_date, base_price, volatility,
                   date_range, scenario, data>>
    /\ UNCHANGED orchVars

\* lines 143-146: one iteration of the price loop
AppendPrice ==
    /\ pc = "prices"
    /\ Len(prices) <= Len(daily_returns)
    /\ prices' = Append(prices,
                        NextPrice(prices[Len(prices)],
                                  daily_returns[Len(prices)], base_price))
    /\ UNCHANGED <<start_date, end_date, base_price, volatility, pc,
                   date_range, scenario, daily_returns, data>>
    /\ UNCHANGED orchVars

\* lines 148-186: prices = prices[1:], then one candle per pair of
\* zip(date_range, prices)
BuildCandles ==
    /\ pc = "prices"
    /\ Len(prices) = Len(daily_returns) + 1
    /\ prices' = Tail(prices)
    /\ LET n == Min(Len(date_range), Len(prices'))
       IN  \E d \in Tapes(n, OhlcDraws, OhlcTypical) :
              data' = [i \in 1..n |->
                          Candle(i, date_range[i], prices', daily_returns, d[i])]
    /\ pc' = "done"
    /\ UNCHANGED <<start_date, end_date, base_price, volatility,
                   date_range, scenario, daily_returns>>
    /\ UNCHANGED orchVars

----------------------------------------------------------------------------
(* The runs of the generator that are explored *)

\* a Monday and a Saturday
StartDates == {0, 5}

\* the day number of the n-th business day counted from day 0
NthBusinessDay(n) == 7 * ((n - 1) \div 5) + ((n - 1) % 5)

\* short ranges, and ranges that end on either side of the scenario thresholds
ShortEnds == 0..MaxShortEnd
LongEnds == {NthBusinessDay(n) : n \in {250, 251, 500, 501}} \cup {MaxDate}

\* 0.24 and 1000.00
BasePrices == {24 * Cent, 1000 * Scale}
\* 0.2 and 10.0
Volatilities == {2 * (Scale \div 10), 10 * Scale}

OrchIdle ==
    /\ store = <<>> /\ opc = "idle" /\ todo = <<>>
    /\ visited = {} /\ skipped = {} /\ calls = <<>>

Init ==
    /\ start_date \in StartDates
    /\ \/ /\ end_date \in ShortEnds
          /\ base_price \in BasePrices
          /\ volatility \in Volatilities
       \/ /\ end_date \in LongEnds
          /\ base_price = 1000 * Scale
          /\ volatility = 2 * (Scale \div 10)
    /\ pc = "start"
    /\ date_range = <<>>
    /\ scenario = "none"
    /\ daily_returns = <<>>
    /\ prices = <<>>
    /\ data = <<>>
    /\ OrchIdle

Next ==
    \/ SelectScenario
    \/ GenerateReturns
    \/ AppendPrice
    \/ BuildCandles

Spec == Init /\ [][Next]_vars

----------------------------------------------------------------------------
(* The orchestration: run_full_enhancement over the price_candle table.     *)
(*                                                                          *)
(* The table is modelled per ticker by how many rows it holds that were     *)
(* there before the run (old) and how many the run inserted (new).  A store *)
(* operation ends in one of three ways: it succeeds, connect_db raises, or  *)
(* the statement (or its commit) raises inside the method's try block.      *)
(* The series a pass generates is represented by its length, the number of  *)
(* business days of the pass's date range.                                  *)

KoreanCatalog ==
    << [ticker |-> "005930", base_price |-> 61600,  volatility |-> 2500, priority |-> 1],
       [ticker |-> "000660", base_price |-> 91400,  volatility |-> 3500, priority |-> 2],
       [ticker |-> "035720", base_price |-> 124200, volatility |-> 4000, priority |-> 3],
       [ticker |-> "005380", base_price |-> 180000, volatility |-> 3000, priority |-> 4],
       [ticker |-> "006400", base_price |-> 450000, volatility |-> 4500, priority |-> 5],
       [ticker |-> "035420", base_price |-> 200000, volatility |-> 3500, priority |-> 6],
       [ticker |-> "051910", base_price |-> 350000, volatility |-> 4000, priority |-> 7],
       [ticker |-> "068270", base_price |-> 180000, volatility |-> 5000, priority |-> 8],
       [ticker |-> "028260", base_price |-> 120000, volatility |-> 3000, priority |-> 9],
       [ticker |-> "066570", base_price |-> 85000,  volatility |-> 3000, priority |-> 10] >>

EtfCatalog ==
    << [ticker |-> "SPY",      base_price |-> 320,   volatility |-> 2000],
       [ticker |-> "QQQ",      base_price |-> 280,   volatility |-> 2500],
       [ticker |-> "VTI",      base_price |-> 180,   volatility |-> 1800],
       [ticker |-> "KODEX200", base_price |-> 35000, volatility |-> 2200] >>

\* the entries of the two dictionaries the runs use
korean_stocks == {KoreanCatalog[i] : i \in 1..NumStocks}
global_etfs == SubSeq(EtfCatalog, 1, NumEtfs)

KoreanTickers == {e.ticker : e \in korean_stocks}
EtfTickers == {global_etfs[i].ticker : i \in 1..Len(global_etfs)}
Tickers == KoreanTickers \cup EtfTickers

\* sorted(self.korean_stocks.items(), key=priority), as the tickers in order
sorted_stocks ==
    [i \in 1..Cardinality(korean_stocks) |->
        (CHOOSE e \in korean_stocks :
            Cardinality({f \in korean_stocks : f.priority < e.priority}) = i - 1).ticker]

Outcomes == {"ok", "connect_error", "execute_error"}

Rows(st, t) == st[t].old + st[t].new

\* the threshold of "enough data"
EnoughRows == 100

\* each method returns the table, whether it raised, and the statements it issued
check_existing_data_count(st, t, o) ==
    [raised |-> o = "connect_error",
     count |-> IF o = "ok" THEN Rows(st, t) ELSE 0,
     ops |-> IF o = "connect_error" THEN <<>> ELSE <<"count">>]

clear_existing_data(st, t, o) ==
    [raised |-> o = "connect_error",
     store |-> IF o = "ok" THEN [st EXCEPT ![t] = [old |-> 0, new |-> 0]] ELSE st,
     ops |-> IF o = "connect_error" THEN <<>> ELSE <<"delete">>]

insert_price_data(st, t, n, o) ==
    IF n = 0
    THEN [raised |-> FALSE, store |-> st, ops |-> <<>>]
    ELSE [raised |-> o = "connect_error",
          store |-> IF o = "ok" THEN [st EXCEPT ![t].new = @ + n] ELSE st,
          ops |-> IF o = "connect_error" THEN <<>> ELSE <<"insert">>]

\* the body of the loop of enhance_korean_stocks for ticker t (lines 256-283);
\* an exception of a store operation ends the body in the except branch
KoreanBody(st, t, n, oc, od, oi) ==
    LET c == check_existing_data_count(st, t, oc)
        d == IF c.count > 0
             THEN clear_existing_data(st, t, od)
             ELSE [raised |-> FALSE, store |-> st, ops |-> <<>>]
        ins == insert_price_data(d.store, t, n, oi)
    IN  IF c.raised
        THEN [store |-> st, skip |-> FALSE, ops |-> c.ops]
        ELSE IF c.count >= EnoughRows
        THEN [store |-> st, skip |-> TRUE, ops |-> c.ops]
        ELSE IF d.raised
        THEN [store |-> d.store, skip |-> FALSE, ops |-> c.ops \o d.ops]
        ELSE [store |-> ins.store, skip |-> FALSE, ops |-> c.ops \o d.ops \o ins.ops]

\* the body of the loop of enhance_global_etfs for ticker t (lines 289-307);
\* nothing catches an exception here, so it leaves the loop
EtfBody(st, t, n, od, oi) ==
    LET d == clear_existing_data(st, t, od)
        ins == insert_price_data(d.store, t, n, oi)
    IN  IF d.raised
        THEN [store |-> d.store, raised |-> TRUE, ops |-> d.ops]
        ELSE [store |-> ins.store, raised |-> ins.raised, ops |-> d.ops \o ins.ops]

\* what one pass of a loop body leaves in the log
Call(t, before, after, ops) ==
    [ticker |-> t, before |-> before, after |-> after, ops |-> ops]

\* one iteration of the loop of enhance_korean_stocks
enhance_korean_stocks ==
    /\ opc = "korean"
    /\ todo # <<>>
    /\ LET t == Head(todo)
           n == Len(BDateRange(start_date, end_date))
       IN  \E oc \in Outcomes, od \in Outcomes, oi \in Outcomes :
              LET r == KoreanBody(store, t, n, oc, od, oi)
              IN  /\ store' = r.store
                  /\ skipped' = IF r.skip THEN skipped \cup {t} ELSE skipped
                  /\ visited' = visited \cup {t}
                  /\ calls' = Append(calls, Call(t, store[t], r.store[t], r.ops))
    /\ todo' = Tail(todo)
    /\ UNCHANGED opc
    /\ UNCHANGED genVars

\* run_full_enhancement goes from the stock pass to the ETF pass
StartEtfs ==
    /\ opc = "korean"
    /\ todo = <<>>
    /\ opc' = "etfs"
    /\ todo' = [i \in 1..Len(global_etfs) |-> global_etfs[i].ticker]
    /\ UNCHANGED <<store, visited, skipped, calls>>
    /\ UNCHANGED genVars

\* one iteration of the loop of enhance_global_etfs; an exception ends the run
\* (run_full_enhancement logs it and raises it again)
enhance_global_etfs ==
    /\ opc = "etfs"
    /\ todo # <<>>
    /\ LET t == Head(todo)
           n == Len(BDateRange(start_date, end_date))
       IN  \E od \in Outcomes, oi \in Outcomes :
              LET r == EtfBody(store, t, n, od, oi)
              IN  /\ store' = r.store
                  /\ visited' = visited \cup {t}
                  /\ calls' = Append(calls, Call(t, store[t], r.store[t], r.ops))
                  /\ opc' = IF r.raised THEN "raised" ELSE "etfs"
    /\ todo' = Tail(todo)
    /\ UNCHANGED skipped
    /\ UNCHANGED genVars

\* verify_data_quality reads the table; only its connect_db can raise
verify_data_quality ==
    /\ opc = "etfs"
    /\ todo = <<>>
    /\ \E o \in Outcomes : opc' = IF o = "connect_error" THEN "raised" ELSE "done"
    /\ UNCHANGED <<store, todo, visited, skipped, calls>>
    /\ UNCHANGED genVars

\* rows a ticker may hold before the run
ExistingCounts == {0, EnoughRows - 1, EnoughRows}

\* date ranges of the passes: a weekend (no business day) and one week
PassRanges == {<<5, 6>>, <<0, 4>>}

InitOrch ==
    /\ \E r \in PassRanges : start_date = r[1] /\ end_date = r[2]
    /\ base_price = Scale /\ volatility = 0
    /\ pc = "idle" /\ date_range = <<>> /\ scenario = "none"
    /\ daily_returns = <<>> /\ prices = <<>> /\ data = <<>>
    /\ store \in [Tickers -> {[old |-> c, new |-> 0] : c \in ExistingCounts}]
    /\ opc = "korean"
    /\ todo = sorted_stocks
    /\ visited = {}
    /\ skipped = {}
    /\ calls = <<>>

NextOrch ==
    \/ enhance_korean_stocks
    \/ StartEtfs
    \/ enhance_global_etfs
    \/ verify_data_quality

SpecOrch == InitOrch /\ [][NextOrch]_vars

----------------------------------------------------------------------------
(* Properties of generate_realistic_price_series (specification Spec) *)

\* the business days of the requested range
BusinessDays == {d \in start_date..end_date : IsBusinessDay(d)}

\* C1: every stored candle has low <= min(open, close), high >= max(open,
\* close) and low <= high
C1_OhlcOrdered ==
    \A i \in 1..Len(data) :
        /\ data[i].low_price <= Min(data[i].open_price, data[i].close_price)
        /\ data[i].high_price >= Max(data[i].open_price, data[i].close_price)
        /\ data[i].low_price <= data[i].high_price

\* a second-day candle that opened above its close, strictly inside low..high
C1_Witness ==
    /\ pc = "done"
    /\ Len(data) = 2
    /\ data[2].open_price > data[2].close_price
    /\ data[2].high_price > data[2].open_price
    /\ data[2].low_price < data[2].close_price

\* C2 as claimed: every generated price (open, high, low, close) is at least
\* 0.1 * base_price
C2_AllPricesFloored ==
    \A i \in 1..Len(data) :
        /\ data[i].open_price >= PriceFloor(base_price)
        /\ data[i].high_price >= PriceFloor(base_price)
        /\ data[i].low_price >= PriceFloor(base_price)
        /\ data[i].close_price >= PriceFloor(base_price)

\* C2 amended: every price of the price path (each close before rounding) is
\* at least 0.1 * base_price, and each stored close and high is at least
\* 0.1 * base_price rounded to two decimals
C2_ClosePathFloored ==
    /\ \A i \in 1..Len(prices) : prices[i] >= PriceFloor(base_price)
    /\ \A i \in 1..Len(data) :
        /\ data[i].close_price >= Round2(PriceFloor(base_price))
        /\ data[i].high_price >= Round2(PriceFloor(base_price))

\* a return below -100% was clamped to the floor
C2_Witness ==
    /\ pc = "done"
    /\ \E i \in 1..Len(prices) :
        /\ daily_returns[i] < -Scale
        /\ prices[i] = PriceFloor(base_price)

\* C3: the series has exactly one candle per business day of the range, in
\* ascending date order
C3_OneCandlePerBusinessDay ==
    pc = "done" =>
        /\ Len(data) = Cardinality(BusinessDays)
        /\ {data[i].date : i \in 1..Len(data)} = BusinessDays
        /\ \A i \in 1..(Len(data) - 1) : data[i].date < data[i + 1].date

\* a mixed series over 501 business days
C3_Witness ==
    /\ pc = "done"
    /\ scenario = "mixed"
    /\ Cardinality(BusinessDays) = 501
    /\ Len(data) = 501

\* C8 as claimed: the first candle's open is within 1% of base_price
C8_FirstOpenNearBase ==
    (pc = "done" /\ Len(data) >= 1) =>
        /\ data[1].open_price >= Mul(base_price, 9900)
        /\ data[1].open_price <= Mul(base_price, 10100)

\* C8 amended: the first candle's open is within 1% of the first day's close
\* (the first price of the path), up to the rounding to two decimals
C8_FirstOpenNearFirstClose ==
    (pc = "done" /\ Len(data) >= 1) =>
        /\ data[1].open_price >= Round2(Mul(prices[1], 9900))
        /\ data[1].open_price <= Round2(Mul(prices[1], 10100))

\* the first day closed far from base_price and the open followed the close
C8_Witness ==
    /\ pc = "done"
    /\ Len(data) >= 1
    /\ prices[1] > Mul(base_price, 10500)
    /\ data[1].open_price > Mul(base_price, 10100)

\* C9: more than 500 business days always select mixed, 251 to 500 select
\* among bull, bear and mixed, 250 or fewer among bull, bear and sideways
C9_ScenarioBoundary ==
    pc \in {"returns", "prices", "done"} =>
        LET days == Cardinality(BusinessDays)
        IN  /\ days > 500 => scenario = "mixed"
            /\ (days > 250 /\ days <= 500) => scenario \in {"bull", "bear", "mixed"}
            /\ days <= 250 => scenario \in {"bull", "bear", "sideways"}

\* mixed was selected for 251 business days
C9_Witness ==
    /\ pc = "returns"
    /\ Cardinality(BusinessDays) = 251
    /\ scenario = "mixed"

\* C10: every candle's volume is at least 100000
C10_VolumeAtLeastBase ==
    \A i \in 1..Len(data) : data[i].volume >= MinBaseVolume

\* a day whose return is below -100% got a volume above the base volume
C10_Witness ==
    /\ pc = "done"
    /\ \E i \in 1..Len(data) :
        /\ daily_returns[i] < -Scale
        /\ data[i].volume > MaxBaseVolume

----------------------------------------------------------------------------
(* Properties of the orchestration (specification SpecOrch) *)

\* C5: a failing store operation never keeps the remaining tickers from being
\* processed, in the stock pass and in the ETF pass
C5_FailureIsolated ==
    /\ opc # "korean" => KoreanTickers \subseteq visited
    /\ opc \in {"done", "raised"} => EtfTickers \subseteq visited

\* C6: a ticker that held fewer than 100 rows never holds rows from before the
\* run together with rows the run inserted
C6_NeverOldAndNew ==
    \A t \in Tickers :
        (store[t].old < EnoughRows /\ store[t].new > 0) => store[t].old = 0

\* C7: a stock reached with 100 or more rows gets no delete and no insert and
\* keeps its rows; a stock reached with 99 or fewer rows is never skipped
C7_SkipUntouched ==
    \A i \in 1..Len(calls) :
        LET c == calls[i]
            rows == c.before.old + c.before.new
        IN  c.ticker \in KoreanTickers =>
                /\ rows >= EnoughRows =>
                      /\ c.after = c.before
                      /\ \A j \in 1..Len(c.ops) : c.ops[j] \notin {"delete", "insert"}
                /\ rows < EnoughRows => c.ticker \notin skipped
====
